---- MODULE Spec2Model ----
(***************************************************************************)
(* Bulk campaign execution of email_automation.                            *)
(*                                                                         *)
(* Two runners exist in the repository and a process is one or the other:  *)
(*   mode = "gui": EmailAutomationApp (main thread) starting EmailWorker   *)
(*                 threads (email_gui.py);                                 *)
(*   mode = "cli": EmailApplication.send_bulk_emails (email_app.py).       *)
(* Both deliver through EmailSender.send_email.                            *)
(*                                                                         *)
(* The file system and the template are fixed for the length of one run.   *)
(* The outcome of the SMTP exchange of one send is an input of the step    *)
(* that performs it (Faults).  Error texts are sequences of tokens.        *)
(* Only the signals whose handlers change modelled state travel through    *)
(* mainQueue (finished); progress_updated and email_sent are recorded in   *)
(* the emitting worker, in emission order.                                 *)
(***************************************************************************)
EXTENDS Integers, Sequences, FiniteSets, TLC

\* ------------------------------------------------------------------ bounds
MaxRecipients == 2
MaxWorkers == 2
MaxAttachments == 1
MaxRows == 2
MaxCols == 2
MaxPieces == 2

\* --------------------------------------------------------------- constants
DefaultMaxSizeMb == 25
BytesPerMb == 1048576

\* the email column of the loaded rows, in file order
Addresses == << "r1@x.org", "r2@x.org", "r3@x.org", "r4@x.org", "r5@x.org" >>

\* the recipient lists a run is given: the first n rows, or one row whose
\* email cell is empty
RecipientLists == { SubSeq(Addresses, 1, n) : n \in 0..MaxRecipients }
                     \cup { << "" >> }

\* outcome of the SMTP exchange of one send
Faults == {"none", "connect", "auth", "send"}

\* the outcomes of one SMTP exchange told apart further: a connection attempt
\* that times out, STARTTLS refused, a time-out during send_message
SessionFaults == Faults \cup {"connect_timeout", "starttls", "send_timeout"}

\* smtp_config as far as _create_smtp_connection reads it, either key absent or set
SmtpConfigs == UNION { [K -> BOOLEAN] : K \in SUBSET {"use_ssl", "use_tls"} }

\* the account of the SMTP configuration, and the passwords it is run with
SmtpUser == "user@x.org"
Passwords == {"pw1", "pw2"}

\* smtp_config c with its username and password
with_credentials(c, p) ==
    [k \in DOMAIN c \cup {"username", "password"} |->
        IF k = "username" THEN SmtpUser ELSE IF k = "password" THEN p ELSE c[k]]

\* the configuration of the campaign runs: STARTTLS, as SetupPage and
\* create_sample_config set it
CampaignSmtp == [use_ssl |-> FALSE, use_tls |-> TRUE]

\* what the Setup page can show: the two check boxes of SetupPage.get_config
SmtpForms == { CampaignSmtp, [use_ssl |-> TRUE, use_tls |-> FALSE] }

\* states of the template file of the command-line runner
TemplateStates == {"ok", "missing", "unreadable", "syntax"}

max_size_bytes == DefaultMaxSizeMb * BytesPerMb

\* the files an attachment path can name
AttachmentFiles ==
    { [exists |-> FALSE, isfile |-> FALSE, size |-> 0, readable |-> FALSE],
      [exists |-> TRUE,  isfile |-> FALSE, size |-> 0, readable |-> FALSE],
      [exists |-> TRUE,  isfile |-> TRUE,  size |-> max_size_bytes, readable |-> TRUE],
      [exists |-> TRUE,  isfile |-> TRUE,  size |-> max_size_bytes + 1, readable |-> TRUE] }

\* the limits an AttachmentHandler is constructed with, in bytes
MaxSizes == { mb * BytesPerMb : mb \in {1, DefaultMaxSizeMb} }

\* the paths create_attachment is called on by itself: directories of any
\* size, files around each limit, files that cannot be opened
AttachmentPaths ==
    AttachmentFiles
    \cup { [exists |-> TRUE, isfile |-> i, size |-> m + d, readable |-> r] :
              i \in BOOLEAN, m \in MaxSizes \cup {1}, d \in {-1, 0, 1}, r \in BOOLEAN }

SeqsUpTo(S, n) == UNION { [1..k -> S] : k \in 0..n }

VARIABLES
    mode,             \* "gui" or "cli"
    recipients_data,  \* EmailAutomationApp.recipients_data / the rows of the CSV file
    attachment_list,  \* ComposePage attachments table / attachments argument
    template_state,   \* state of the template file (cli)
    email_app,        \* EmailAutomationApp.email_app is not None
    app_config,       \* email_app.config['smtp'], as last installed
    setup_config,     \* the SMTP settings the Setup page shows (SetupPage.get_config)
    worker,           \* EmailAutomationApp.worker: 0 is None, else a worker id
    workers,          \* the EmailWorker objects created so far, by id
    mainQueue,        \* queued signals waiting for the main thread
    send_all_enabled, \* SendPage.send_all_btn.isEnabled()
    stop_enabled,     \* SendPage.stop_btn.isEnabled()
    test_loading,     \* SendPage.test_btn.is_loading
    cli,              \* the frame of EmailApplication.send_bulk_emails
    call              \* one call of a function of email_app.py: arguments and return

vars == << mode, recipients_data, attachment_list, template_state, email_app, worker, workers,
           mainQueue, send_all_enabled, stop_enabled, test_loading, cli, call,
           app_config, setup_config >>

guiVars == << email_app, app_config, worker, workers, mainQueue, send_all_enabled,
              stop_enabled, test_loading >>

\* ------------------------------------------------------- pure functions

\* AttachmentHandler.create_attachment: "ok" or the reason of the EmailSendError
\* faulty variant: a file of exactly the maximum size is refused
create_attachment_inclusive(f, max) ==
    IF ~f.exists THEN "Attachment file not found"
    ELSE IF ~f.isfile THEN "Attachment path is not a file"
    ELSE IF f.size >= max THEN "File too large"
    ELSE IF ~f.readable THEN "Cannot read attachment file"
    ELSE "ok"

create_attachment(f, max) ==
    IF ~f.exists THEN "Attachment file not found"
    ELSE IF ~f.isfile THEN "Attachment path is not a file"
    ELSE IF f.size > max THEN "File too large"
    ELSE IF ~f.readable THEN "Cannot read attachment file"
    ELSE "ok"

\* the file system calls create_attachment makes, in order, up to its raise
\* or return
create_attachment_ops(f, max) ==
    IF ~f.exists THEN <<"exists">>
    ELSE IF ~f.isfile THEN <<"exists", "isfile">>
    ELSE IF f.size > max THEN <<"exists", "isfile", "getsize">>
    ELSE <<"exists", "isfile", "getsize", "open">>

RECURSIVE attach_all(_, _)
\* the attachment loop of send_email: "ok" or the reason of the first failure
attach_all(atts, max) ==
    IF atts = << >> THEN "ok"
    ELSE LET r == create_attachment(Head(atts), max)
         IN IF r # "ok" THEN r ELSE attach_all(Tail(atts), max)

\* smtp_config.get(key, default)
config_get(cfg, key, default) == IF key \in DOMAIN cfg THEN cfg[key] ELSE default

\* faulty variant: login is issued before STARTTLS
create_smtp_connection_login_first(cfg, fault) ==
    IF fault \in {"connect", "connect_timeout"}
    THEN [ok |-> FALSE, err |-> <<"Connection error">>, trace |-> << >>, open |-> FALSE]
    ELSE LET ssl == config_get(cfg, "use_ssl", FALSE)
             tls == ~ssl /\ config_get(cfg, "use_tls", TRUE)
             c == IF ssl THEN <<"connect_ssl">> ELSE <<"connect_plain">> IN
         IF fault = "auth"
         THEN [ok |-> FALSE, err |-> <<"SMTP authentication failed">>,
               trace |-> c \o <<"login">>, open |-> TRUE]
         ELSE IF tls /\ fault = "starttls"
         THEN [ok |-> FALSE, err |-> <<"SMTP error">>,
               trace |-> c \o <<"login">>, open |-> TRUE]
         ELSE [ok |-> TRUE, err |-> << >>,
               trace |-> c \o <<"login">> \o (IF tls THEN <<"starttls">> ELSE << >>),
               open |-> TRUE]

\* EmailSender._create_smtp_connection: SMTP_SSL, or SMTP and STARTTLS, then
\* login.  trace is the exchange with the server, in order; open tells whether
\* the socket it opened is still open when it returns or raises.  The
\* constructors close their socket when they fail; nothing closes it after a
\* failed starttls() or login().
create_smtp_connection(cfg, fault) ==
    IF fault \in {"connect", "connect_timeout"}
    THEN [ok |-> FALSE, err |-> <<"Connection error">>, trace |-> << >>, open |-> FALSE]
    ELSE LET ssl == config_get(cfg, "use_ssl", FALSE)
             tls == ~ssl /\ config_get(cfg, "use_tls", TRUE)
             c == IF ssl THEN <<"connect_ssl">> ELSE <<"connect_plain">> IN
         IF tls /\ fault = "starttls"
         THEN [ok |-> FALSE, err |-> <<"SMTP error">>, trace |-> c, open |-> TRUE]
         ELSE LET t == c \o (IF tls THEN <<"starttls">> ELSE << >>) \o <<"login">> IN
              IF fault = "auth"
              THEN [ok |-> FALSE, err |-> <<"SMTP authentication failed">>,
                    trace |-> t, open |-> TRUE]
              ELSE [ok |-> TRUE, err |-> << >>, trace |-> t, open |-> TRUE]

\* the recipient argument of send_email: a str, a list of str, or None
Str(s) == [kind |-> "str", s |-> s]
List(l) == [kind |-> "list", l |-> l]
None == [kind |-> "none"]

\* recipients = [recipient] if isinstance(recipient, str) else recipient
normalize_recipients(recipient) ==
    CASE recipient.kind = "str"  -> << recipient.s >>
      [] recipient.kind = "list" -> recipient.l
      [] OTHER                   -> << >>

\* the text of the exception send_message raises, "" when it raises none
send_message_error(fault) ==
    CASE fault = "send"         -> "message refused"
      [] fault = "send_timeout" -> "timed out"
      [] OTHER                  -> ""

\* faulty variant: the SMTP connection is opened before the attachments are built
send_email_connect_first(cfg, recipient, atts, max, fault) ==
    IF normalize_recipients(recipient) = << >>
    THEN [ok |-> FALSE, err |-> <<"No recipients specified">>, smtp |-> 0,
          trace |-> << >>, open |-> FALSE]
    ELSE
    LET a == attach_all(atts, max) IN
    IF a # "ok"
    THEN [ok |-> FALSE, err |-> <<"Attachment error", a>>, smtp |-> 1,
          trace |-> << >>, open |-> FALSE]
    ELSE LET c == create_smtp_connection(cfg, fault)
             m == send_message_error(fault) IN
         IF ~c.ok
         THEN [ok |-> FALSE, err |-> <<"SMTP error">> \o c.err, smtp |-> 1,
               trace |-> c.trace, open |-> c.open]
         ELSE IF m # ""
              THEN [ok |-> FALSE, err |-> <<"SMTP error", m>>, smtp |-> 1,
                    trace |-> c.trace \o <<"send_message", "quit">>, open |-> FALSE]
              ELSE [ok |-> TRUE, err |-> << >>, smtp |-> 1,
                    trace |-> c.trace \o <<"send_message", "quit">>, open |-> FALSE]

\* EmailSender.send_email: ok, or the text of the EmailSendError it raises.
\* smtp is the number of SMTP connections it asked for, trace the exchange
\* with the server, open whether a socket is left open.  The with block
\* sends QUIT and closes the socket whether send_message raised or not.
send_email(cfg, recipient, atts, max, fault) ==
    IF normalize_recipients(recipient) = << >>
    THEN [ok |-> FALSE, err |-> <<"No recipients specified">>, smtp |-> 0,
          trace |-> << >>, open |-> FALSE]
    ELSE
    LET a == attach_all(atts, max) IN
    IF a # "ok"
    THEN [ok |-> FALSE, err |-> <<"Attachment error", a>>, smtp |-> 0,
          trace |-> << >>, open |-> FALSE]
    ELSE LET c == create_smtp_connection(cfg, fault)
             m == send_message_error(fault) IN
         IF ~c.ok
         THEN [ok |-> FALSE, err |-> <<"SMTP error">> \o c.err, smtp |-> 1,
               trace |-> c.trace, open |-> c.open]
         ELSE IF m # ""
              THEN [ok |-> FALSE, err |-> <<"SMTP error", m>>, smtp |-> 1,
                    trace |-> c.trace \o <<"send_message", "quit">>, open |-> FALSE]
              ELSE [ok |-> TRUE, err |-> << >>, smtp |-> 1,
                    trace |-> c.trace \o <<"send_message", "quit">>, open |-> FALSE]

\* faulty variant: the connection line logs the whole smtp_config
send_email_log_config(cfg, recipient, atts, max, fault) ==
    LET rs == normalize_recipients(recipient)
        a == attach_all(atts, max)
        r == send_email(cfg, recipient, atts, max, fault)
        head == << <<"Sending email to">> \o rs,
                   <<"SMTP CONNECT", cfg.username, cfg.password>> >> IN
    IF rs = << >> THEN << >>
    ELSE IF a # "ok" THEN head \o << <<"Failed to attach", a>> >>
    ELSE IF r.ok THEN head \o [k \in DOMAIN rs |-> <<"EMAIL SENT", rs[k]>>]
    ELSE head \o [k \in DOMAIN rs |-> <<"EMAIL FAILED", rs[k]>> \o Tail(r.err)]

\* the records send_email writes to the log, in order: the recipients, the
\* connection line of log_smtp_connection (host and port left out), then the
\* attachment failure, or one success or failure line per recipient with the
\* text of the exception
send_email_log(cfg, recipient, atts, max, fault) ==
    LET rs == normalize_recipients(recipient)
        a == attach_all(atts, max)
        r == send_email(cfg, recipient, atts, max, fault)
        head == << <<"Sending email to">> \o rs, <<"SMTP CONNECT", cfg.username>> >> IN
    IF rs = << >> THEN << >>
    ELSE IF a # "ok" THEN head \o << <<"Failed to attach", a>> >>
    ELSE IF r.ok THEN head \o [k \in DOMAIN rs |-> <<"EMAIL SENT", rs[k]>>]
    ELSE head \o [k \in DOMAIN rs |-> <<"EMAIL FAILED", rs[k]>> \o Tail(r.err)]

\* EmailApplication.send_test_email: recipient = test_recipient or the
\* username (no test_email configured); it returns False instead of raising
\* and logs the result with the text of the exception
send_test_email(cfg, test_recipient, fault) ==
    LET recipient == IF test_recipient.kind = "str" /\ test_recipient.s # ""
                     THEN test_recipient.s ELSE cfg.username
        r == send_email(cfg, Str(recipient), << >>, max_size_bytes, fault) IN
    [ok |-> r.ok,
     log |-> send_email_log(cfg, Str(recipient), << >>, max_size_bytes, fault)
             \o << IF r.ok THEN <<"TEST EMAIL sent", recipient>>
                   ELSE <<"TEST EMAIL failed", recipient>> \o r.err >>]

\* the faults a send can meet: the SMTP exchange is reached only with valid attachments
FaultsFor(atts, max) == IF attach_all(atts, max) = "ok" THEN Faults ELSE {"none"}

\* faulty variant: a template that fails to render is sent as it is
render_template_lenient(tpl) ==
    CASE tpl = "missing"    -> "Template file not found"
      [] tpl = "unreadable" -> "Error reading template file"
      [] OTHER              -> "ok"

\* TemplateRenderer.render_template: "ok" or the text of the TemplateError
render_template(tpl) ==
    CASE tpl = "missing"    -> "Template file not found"
      [] tpl = "unreadable" -> "Error reading template file"
      [] tpl = "syntax"     -> "Template rendering error"
      [] OTHER              -> "ok"

\* ------------------------------------------------------------ the workers
\* Fields of an EmailWorker beyond those of the class: pc and exit are the
\* position of its thread; progress, items and terminal are the signals it has
\* emitted; attempted, smtpCalls, stopAsked and stopAt are history (the
\* recipients whose iteration began, the SMTP connections asked for, whether
\* stop was clicked in the window while this campaign ran, and the recipient
\* in flight when should_stop was set, 0 when none was).  smtp_config is
\* the local of _run_bulk_email, started_config the configuration installed
\* by the handler that created the worker, afterStop whether the worker the
\* window referred to before had its should_stop set.

NoWorker ==
    [op |-> "none", pc |-> "none", should_stop |-> FALSE, recipients |-> << >>,
     attachments |-> << >>, total |-> 0, i |-> 0, sent |-> 0, failed |-> 0,
     errors |-> << >>, success |-> FALSE, progress |-> << >>, items |-> << >>,
     attempted |-> << >>, smtpCalls |-> 0, exit |-> "none", terminal |-> << >>,
     slot |-> "none", stopAsked |-> FALSE, stopAt |-> 0,
     smtp_config |-> CampaignSmtp, started_config |-> CampaignSmtp,
     afterStop |-> FALSE]

\* faulty variant: the flag of the worker the window refers to is taken over
NewWorker_stale(operation, recips, atts, finished_slot) ==
    [NoWorker EXCEPT !.op = operation, !.pc = "created", !.slot = finished_slot,
                     !.recipients = recips, !.attachments = atts,
                     !.should_stop = (worker # 0 /\ workers[worker].should_stop)]

\* EmailWorker.__init__
NewWorker(operation, recips, atts, finished_slot) ==
    [NoWorker EXCEPT !.op = operation, !.pc = "created", !.slot = finished_slot,
                     !.recipients = recips, !.attachments = atts]

Created == { w \in 1..MaxWorkers : workers[w].op # "none" }
Running(w) == workers[w].op # "none" /\ workers[w].pc # "done"
BulkRunning(w) == workers[w].op = "bulk" /\ workers[w].pc # "done"
\* an id no live EmailWorker object has (0 when MaxWorkers objects are alive)
FreeId == IF Created = 1..MaxWorkers THEN 0
          ELSE CHOOSE w \in 1..MaxWorkers :
                /\ w \notin Created
                /\ \A v \in 1..MaxWorkers : v \notin Created => w <= v

\* An EmailWorker object lives while its thread runs, while the window refers
\* to it (ref), or while its finished signal is queued; then it is destroyed.
Collect(ws, ref, queue) ==
    [w \in 1..MaxWorkers |->
        IF /\ ws[w].pc = "done" /\ ref # w
           /\ \A k \in DOMAIN queue : queue[k].w # w
        THEN NoWorker ELSE ws[w]]

NoCall == [fn |-> "none"]

Init ==
    /\ mode \in {"gui", "cli"}
    /\ recipients_data \in RecipientLists
    /\ attachment_list \in SeqsUpTo(AttachmentFiles, MaxAttachments)
    /\ template_state \in (IF mode = "cli" THEN TemplateStates ELSE {"ok"})
    /\ email_app = FALSE
    /\ app_config = CampaignSmtp
    /\ setup_config = CampaignSmtp
    /\ worker = 0
    /\ workers = [w \in 1..MaxWorkers |-> NoWorker]
    /\ mainQueue = << >>
    /\ send_all_enabled = TRUE
    /\ stop_enabled = FALSE
    /\ test_loading = FALSE
    /\ cli = [pc |-> IF mode = "cli" THEN "start" ELSE "none",
              total |-> 0, i |-> 0, sent |-> 0, failed |-> 0, errors |-> << >>,
              success |-> FALSE, attempted |-> << >>, items |-> << >>, smtpCalls |-> 0]
    /\ call = NoCall

envVars == << mode, recipients_data, attachment_list, template_state, call, setup_config >>

\* ------------------------------------------------- main thread (email_gui.py)

\* EmailAutomationApp.validate_configuration: the SMTP form is complete and
\* recipients are loaded
validate_configuration(smtp_complete) == smtp_complete /\ recipients_data # << >>

\* SendPage.send_bulk -> EmailAutomationApp.send_bulk_emails, leaving by one of
\* its early returns: validation failed, or (with the application installed)
\* subject, content or email column missing, or the confirmation answered No
SendBulkRejected ==
    /\ mode = "gui" /\ send_all_enabled
    /\ \E smtp_complete \in BOOLEAN :
          /\ email_app' = (email_app \/ validate_configuration(smtp_complete))
          /\ app_config' = IF validate_configuration(smtp_complete)
                           THEN setup_config ELSE app_config
    /\ UNCHANGED << envVars, worker, workers, mainQueue, send_all_enabled,
                    stop_enabled, test_loading, cli >>

\* SendPage.send_bulk -> EmailAutomationApp.send_bulk_emails starting the campaign,
\* then SendPage.update_ui_for_sending(True)
SendBulkStart ==
    /\ mode = "gui" /\ send_all_enabled
    /\ validate_configuration(TRUE)
    /\ FreeId # 0
    /\ email_app' = TRUE
    /\ app_config' = setup_config
    /\ worker' = FreeId
    /\ workers' = Collect([workers EXCEPT
          ![FreeId] = [NewWorker("bulk", recipients_data, attachment_list, "bulk_finished")
                          EXCEPT !.started_config = setup_config,
                                 !.afterStop = (worker # 0 /\ workers[worker].should_stop)]],
          FreeId, mainQueue)
    /\ send_all_enabled' = FALSE
    /\ stop_enabled' = TRUE
    /\ UNCHANGED << envVars, mainQueue, test_loading, cli >>

\* SendPage.send_test -> EmailAutomationApp.send_test_email.  When
\* validate_configuration fails the handler returns with the state as it was.
SendTestEmail ==
    /\ mode = "gui" /\ ~test_loading
    /\ validate_configuration(TRUE)
    /\ FreeId # 0
    /\ email_app' = TRUE
    /\ app_config' = setup_config
    /\ worker' = FreeId
    /\ workers' = Collect([workers EXCEPT
          ![FreeId] = NewWorker("test", << >>, << >>, "test_email_finished")],
          FreeId, mainQueue)
    /\ test_loading' = TRUE
    /\ UNCHANGED << envVars, mainQueue, send_all_enabled, stop_enabled, cli >>

\* menu action / SetupPage.test_connection -> EmailAutomationApp.test_smtp_connection
\* with the SMTP form complete (else the handler returns with the state as it was)
TestSmtpConnection ==
    /\ mode = "gui"
    /\ FreeId # 0
    /\ email_app' = TRUE
    /\ app_config' = setup_config
    /\ worker' = FreeId
    /\ workers' = Collect([workers EXCEPT
          ![FreeId] = NewWorker("test", << >>, << >>, "test_finished")],
          FreeId, mainQueue)
    /\ UNCHANGED << envVars, mainQueue, send_all_enabled, stop_enabled,
                    test_loading, cli >>

\* SendPage.stop_sending -> EmailAutomationApp.stop_sending -> EmailWorker.stop
StopSending ==
    /\ mode = "gui" /\ stop_enabled
    /\ workers' = [w \in 1..MaxWorkers |->
          [workers[w] EXCEPT
              !.should_stop = IF w = worker THEN TRUE ELSE @,
              !.stopAsked = IF BulkRunning(w) THEN TRUE ELSE @,
              !.stopAt = IF w = worker /\ ~workers[w].should_stop /\ workers[w].pc = "sending"
                         THEN workers[w].i + 1 ELSE @]]
    /\ UNCHANGED << envVars, email_app, app_config, worker, mainQueue, send_all_enabled,
                    stop_enabled, test_loading, cli >>

\* EmailAutomationApp.bulk_finished, with SendPage.update_ui_for_sending(False)
BulkFinished ==
    /\ mainQueue # << >> /\ Head(mainQueue).slot = "bulk_finished"
    /\ mainQueue' = Tail(mainQueue)
    /\ workers' = Collect(workers, worker, Tail(mainQueue))
    /\ send_all_enabled' = TRUE
    /\ stop_enabled' = FALSE
    /\ test_loading' = FALSE
    /\ UNCHANGED << envVars, email_app, app_config, worker, cli >>

\* EmailAutomationApp.test_email_finished
TestEmailFinished ==
    /\ mainQueue # << >> /\ Head(mainQueue).slot = "test_email_finished"
    /\ mainQueue' = Tail(mainQueue)
    /\ workers' = Collect(workers, worker, Tail(mainQueue))
    /\ test_loading' = FALSE
    /\ UNCHANGED << envVars, email_app, app_config, worker, send_all_enabled,
                    stop_enabled, cli >>

\* EmailAutomationApp.test_finished
TestFinished ==
    /\ mainQueue # << >> /\ Head(mainQueue).slot = "test_finished"
    /\ mainQueue' = Tail(mainQueue)
    /\ workers' = Collect(workers, worker, Tail(mainQueue))
    /\ UNCHANGED << envVars, email_app, app_config, worker, send_all_enabled,
                    stop_enabled, test_loading, cli >>

\* ------------------------------------------- EmailWorker threads (email_gui.py)

workerFrame == << envVars, email_app, app_config, worker, send_all_enabled, stop_enabled,
                  test_loading, cli >>

\* faulty variant: success needs a message sent
campaign_success_sent(sent, failed) == sent > 0 /\ failed = 0

\* faulty variant: success when anything was sent
campaign_success_any(sent, failed) == sent > 0

\* results['success'] = results['failed'] == 0
campaign_success(sent, failed) == failed = 0

\* faulty variant: total counts the processed recipients only
Results_processed(wk) ==
    [total |-> wk.i, sent |-> wk.sent, failed |-> wk.failed,
     errors |-> wk.errors, success |-> wk.success]

\* the results dict of one bulk worker
Results(wk) ==
    [total |-> wk.total, sent |-> wk.sent, failed |-> wk.failed,
     errors |-> wk.errors, success |-> wk.success]

\* faulty variant: a failed send ends the loop
count_result_stop(wk, rcpt, r) ==
    [wk EXCEPT
        !.pc = "loop",
        !.i = IF r.ok THEN @ + 1 ELSE wk.total,
        !.smtpCalls = @ + r.smtp,
        !.sent = IF r.ok THEN @ + 1 ELSE @,
        !.failed = IF r.ok THEN @ ELSE @ + 1,
        !.errors = IF r.ok THEN @ ELSE Append(@, r.err),
        !.items = Append(@, [idx |-> wk.i + 1, recipient |-> rcpt,
                             success |-> r.ok, error |-> r.err, smtp |-> r.smtp])]

\* faulty variant: a stop seen during the send drops the outcome of that send
count_result_interrupt(wk, rcpt, r) ==
    IF wk.should_stop
    THEN [wk EXCEPT !.pc = "loop", !.smtpCalls = @ + r.smtp]
    ELSE [wk EXCEPT
        !.pc = "loop",
        !.i = @ + 1,
        !.smtpCalls = @ + r.smtp,
        !.sent = IF r.ok THEN @ + 1 ELSE @,
        !.failed = IF r.ok THEN @ ELSE @ + 1,
        !.errors = IF r.ok THEN @ ELSE Append(@, r.err),
        !.items = Append(@, [idx |-> wk.i + 1, recipient |-> rcpt,
                             success |-> r.ok, error |-> r.err, smtp |-> r.smtp])]

\* faulty variant: email_sent is emitted for successful sends only
count_result_silent(wk, rcpt, r) ==
    [wk EXCEPT
        !.pc = "loop",
        !.i = @ + 1,
        !.smtpCalls = @ + r.smtp,
        !.sent = IF r.ok THEN @ + 1 ELSE @,
        !.failed = IF r.ok THEN @ ELSE @ + 1,
        !.errors = IF r.ok THEN @ ELSE Append(@, r.err),
        !.items = IF r.ok
                  THEN Append(@, [idx |-> wk.i + 1, recipient |-> rcpt,
                                  success |-> r.ok, error |-> r.err, smtp |-> r.smtp])
                  ELSE @]

\* faulty variant: a failure is counted twice
count_result_twice(wk, rcpt, r) ==
    [wk EXCEPT
        !.pc = "loop",
        !.i = @ + 1,
        !.smtpCalls = @ + r.smtp,
        !.sent = IF r.ok THEN @ + 1 ELSE @,
        !.failed = IF r.ok THEN @ ELSE @ + 2,
        !.errors = IF r.ok THEN @ ELSE Append(@, r.err),
        !.items = Append(@, [idx |-> wk.i + 1, recipient |-> rcpt,
                             success |-> r.ok, error |-> r.err, smtp |-> r.smtp])]

\* faulty variant: the error text is put in front of the list
count_result_prepend(wk, rcpt, r) ==
    [wk EXCEPT
        !.pc = "loop",
        !.i = @ + 1,
        !.smtpCalls = @ + r.smtp,
        !.sent = IF r.ok THEN @ + 1 ELSE @,
        !.failed = IF r.ok THEN @ ELSE @ + 1,
        !.errors = IF r.ok THEN @ ELSE << r.err >> \o @,
        !.items = Append(@, [idx |-> wk.i + 1, recipient |-> rcpt,
                             success |-> r.ok, error |-> r.err, smtp |-> r.smtp])]

\* the end of one iteration of _run_bulk_email, given what send_email did:
\* sent or failed counted, the error text kept, email_sent emitted
count_result(wk, rcpt, r) ==
    [wk EXCEPT
        !.pc = "loop",
        !.i = @ + 1,
        !.smtpCalls = @ + r.smtp,
        !.sent = IF r.ok THEN @ + 1 ELSE @,
        !.failed = IF r.ok THEN @ ELSE @ + 1,
        !.errors = IF r.ok THEN @ ELSE Append(@, r.err),
        !.items = Append(@, [idx |-> wk.i + 1, recipient |-> rcpt,
                             success |-> r.ok, error |-> r.err, smtp |-> r.smtp])]

\* EmailWorker.run -> _run_test_email
RunTestEmail(w) ==
    /\ workers[w].op = "test" /\ workers[w].pc = "created"
    /\ \E fault \in Faults :
        LET r == send_email(app_config, Str("test@x.org"), << >>, max_size_bytes, fault)
            res == [success |-> r.ok] IN
        /\ workers' = [workers EXCEPT ![w].pc = "done",
                                      ![w].smtpCalls = @ + r.smtp,
                                      ![w].success = r.ok,
                                      ![w].terminal = Append(@, res)]
        /\ mainQueue' = Append(mainQueue, [w |-> w, slot |-> workers[w].slot, ok |-> r.ok])
    /\ UNCHANGED workerFrame

\* _run_bulk_email up to the loop: total, progress (0, total), smtp_config
\* read from email_app.config, the empty results
BulkInit(w) ==
    /\ workers[w].op = "bulk" /\ workers[w].pc = "created"
    /\ workers' = [workers EXCEPT
          ![w].pc = "loop",
          ![w].total = Len(workers[w].recipients),
          ![w].smtp_config = app_config,
          ![w].progress = Append(@, << 0, Len(workers[w].recipients) >>)]
    /\ UNCHANGED << workerFrame, mainQueue >>

\* top of one iteration: the should_stop test passed, progress (i + 1, total) emitted
BulkNext(w) ==
    /\ workers[w].op = "bulk" /\ workers[w].pc = "loop"
    /\ workers[w].i < workers[w].total
    /\ ~workers[w].should_stop
    /\ workers' = [workers EXCEPT
          ![w].pc = "sending",
          ![w].progress = Append(@, << workers[w].i + 1, workers[w].total >>),
          ![w].attempted = Append(@, workers[w].i + 1)]
    /\ UNCHANGED << workerFrame, mainQueue >>

\* rest of the iteration: render, send_email, count, email_sent
BulkSend(w) ==
    /\ workers[w].op = "bulk" /\ workers[w].pc = "sending"
    /\ LET wk == workers[w]
           rcpt == wk.recipients[wk.i + 1] IN
       \E fault \in FaultsFor(wk.attachments, max_size_bytes) :
          workers' = [workers EXCEPT ![w] =
              count_result(wk, rcpt,
                  send_email(wk.smtp_config, Str(rcpt), wk.attachments, max_size_bytes, fault))]
    /\ UNCHANGED << workerFrame, mainQueue >>

\* faulty variant: a cancelled run ends without emitting finished
BulkFinish_silent_break(w) ==
    /\ workers[w].op = "bulk" /\ workers[w].pc = "loop"
    /\ workers[w].i = workers[w].total \/ workers[w].should_stop
    /\ LET wk == workers[w]
           done == [wk EXCEPT !.pc = "done",
                              !.exit = IF wk.i = wk.total THEN "exhausted" ELSE "break",
                              !.success = campaign_success(wk.sent, wk.failed)] IN
       IF wk.i = wk.total
       THEN /\ workers' = [workers EXCEPT ![w] = [done EXCEPT !.terminal = Append(@, Results(done))]]
            /\ mainQueue' = Append(mainQueue, [w |-> w, slot |-> wk.slot, ok |-> done.success])
       ELSE /\ workers' = [workers EXCEPT ![w] = done]
            /\ UNCHANGED mainQueue
    /\ UNCHANGED workerFrame

\* the loop is left (exhausted, or break on should_stop): success, finished
BulkFinish(w) ==
    /\ workers[w].op = "bulk" /\ workers[w].pc = "loop"
    /\ workers[w].i = workers[w].total \/ workers[w].should_stop
    /\ LET wk == workers[w]
           done == [wk EXCEPT !.pc = "done",
                              !.exit = IF wk.i = wk.total THEN "exhausted" ELSE "break",
                              !.success = campaign_success(wk.sent, wk.failed)] IN
       /\ workers' = [workers EXCEPT ![w] = [done EXCEPT !.terminal = Append(@, Results(done))]]
       /\ mainQueue' = Append(mainQueue, [w |-> w, slot |-> wk.slot, ok |-> done.success])
    /\ UNCHANGED workerFrame

\* ------------------------- EmailApplication.send_bulk_emails (email_app.py)

cliFrame == << envVars, guiVars >>

\* read_recipients and the results dict; CSVError when no recipient is left
CliStart ==
    /\ cli.pc = "start"
    /\ cli' = IF recipients_data = << >>
              THEN [cli EXCEPT !.pc = "raised"]
              ELSE [cli EXCEPT !.pc = "loop", !.total = Len(recipients_data)]
    /\ UNCHANGED cliFrame

\* one iteration: render_template, send_email, count.  items is the history
\* of outcomes (the runner emits no events).
CliRecipient ==
    /\ cli.pc = "loop" /\ cli.i < cli.total
    /\ LET rcpt == recipients_data[cli.i + 1]
           t == render_template(template_state) IN
       IF t # "ok"
       THEN cli' = [cli EXCEPT
                !.i = @ + 1, !.failed = @ + 1,
                !.attempted = Append(@, cli.i + 1),
                !.items = Append(@, [idx |-> cli.i + 1, recipient |-> rcpt,
                                     success |-> FALSE, error |-> << t >>, smtp |-> 0]),
                !.errors = Append(@, <<"Error sending to", rcpt, t>>)]
       ELSE \E fault \in FaultsFor(attachment_list, max_size_bytes) :
            LET r == send_email(CampaignSmtp, Str(rcpt), attachment_list, max_size_bytes, fault) IN
            cli' = [cli EXCEPT
                !.i = @ + 1,
                !.smtpCalls = @ + r.smtp,
                !.attempted = Append(@, cli.i + 1),
                !.items = Append(@, [idx |-> cli.i + 1, recipient |-> rcpt,
                                     success |-> r.ok, error |-> r.err, smtp |-> r.smtp]),
                !.sent = IF r.ok THEN @ + 1 ELSE @,
                !.failed = IF r.ok THEN @ ELSE @ + 1,
                !.errors = IF r.ok THEN @
                           ELSE Append(@, <<"Error sending to", rcpt>> \o r.err)]
    /\ UNCHANGED cliFrame

\* after the loop: success, return results
CliFinish ==
    /\ cli.pc = "loop" /\ cli.i = cli.total
    /\ cli' = [cli EXCEPT !.pc = "done", !.success = campaign_success(cli.sent, cli.failed)]
    /\ UNCHANGED cliFrame

Next ==
    \/ SendBulkRejected
    \/ SendBulkStart
    \/ SendTestEmail
    \/ TestSmtpConnection
    \/ StopSending
    \/ BulkFinished
    \/ TestEmailFinished
    \/ TestFinished
    \/ \E w \in 1..MaxWorkers : RunTestEmail(w)
    \/ \E w \in 1..MaxWorkers : BulkInit(w)
    \/ \E w \in 1..MaxWorkers : BulkNext(w)
    \/ \E w \in 1..MaxWorkers : BulkSend(w)
    \/ \E w \in 1..MaxWorkers : BulkFinish(w)
    \/ CliStart
    \/ CliRecipient
    \/ CliFinish

Spec == Init /\ [][Next]_vars

\* ------------------------------- the window while a campaign runs
\* The window with recipients loaded, where the user, while a campaign runs,
\* also edits the Setup page and reloads the recipients file.

settingsFrame == << mode, attachment_list, template_state, call, worker, workers,
                   mainQueue, send_all_enabled, stop_enabled, test_loading, cli >>

\* the user changes the SMTP settings on the Setup page
EditSettings ==
    /\ mode = "gui"
    /\ \E w \in 1..MaxWorkers : BulkRunning(w)
    /\ \E c \in SmtpForms \ { setup_config } : setup_config' = c
    /\ UNCHANGED << settingsFrame, recipients_data, email_app, app_config >>

\* EmailAutomationApp.refresh_recipients: another file is read into
\* self.recipients_data; the application object is created if there is none
RefreshRecipients ==
    /\ mode = "gui"
    /\ \E w \in 1..MaxWorkers : BulkRunning(w)
    /\ \E l \in RecipientLists \ { recipients_data } : recipients_data' = l
    /\ email_app' = TRUE
    /\ UNCHANGED << settingsFrame, app_config, setup_config >>

InitSettings ==
    /\ mode = "gui"
    /\ recipients_data \in RecipientLists \ { << >> }
    /\ attachment_list = << >>
    /\ template_state = "ok"
    /\ email_app = FALSE
    /\ app_config = CampaignSmtp
    /\ setup_config \in SmtpForms
    /\ worker = 0
    /\ workers = [w \in 1..MaxWorkers |-> NoWorker]
    /\ mainQueue = << >>
    /\ send_all_enabled = TRUE
    /\ stop_enabled = FALSE
    /\ test_loading = FALSE
    /\ cli = [pc |-> "none", total |-> 0, i |-> 0, sent |-> 0, failed |-> 0,
              errors |-> << >>, success |-> FALSE, attempted |-> << >>,
              items |-> << >>, smtpCalls |-> 0]
    /\ call = NoCall

NextSettings ==
    \/ EditSettings
    \/ RefreshRecipients
    \/ SendBulkStart
    \/ TestSmtpConnection
    \/ BulkFinished
    \/ TestFinished
    \/ \E w \in 1..MaxWorkers : RunTestEmail(w)
    \/ \E w \in 1..MaxWorkers : BulkInit(w)
    \/ \E w \in 1..MaxWorkers : BulkNext(w)
    \/ \E w \in 1..MaxWorkers : BulkSend(w)
    \/ \E w \in 1..MaxWorkers : BulkFinish(w)

SpecSettings == InitSettings /\ [][NextSettings]_vars

\* ----------------------------------------- CSVReader (email_app.py)
\* A text is a sequence of characters. A CSV file is given as the rows the
\* csv module parses from it (a blank line parses to the empty row); the
\* first row is the header.

Whitespace == {" ", "\t"}

RECURSIVE lstrip(_)
lstrip(s) == IF s # << >> /\ Head(s) \in Whitespace THEN lstrip(Tail(s)) ELSE s

RECURSIVE rstrip(_)
rstrip(s) ==
    IF s # << >> /\ s[Len(s)] \in Whitespace
    THEN rstrip(SubSeq(s, 1, Len(s) - 1)) ELSE s

\* faulty variant: only leading whitespace is removed
strip_leading(s) == lstrip(s)

\* str.strip()
strip(s) == rstrip(lstrip(s))

\* csv.DictReader.__next__ on one parsed row: dict(zip(fieldnames, row)),
\* then the cells beyond the header under the key None, or None for the
\* header columns the row is too short for. A dict is the sequence of its
\* (key, value) pairs in insertion order.
DictRow(fieldnames, row) ==
    LET lf == Len(fieldnames)
        lr == Len(row)
        n == IF lf < lr THEN lf ELSE lr
        zipped == [k \in 1..n |-> << fieldnames[k], Str(row[k]) >>] IN
    IF lf < lr
    THEN Append(zipped, << None, List(SubSeq(row, lf + 1, lr)) >>)
    ELSE zipped \o [k \in 1..(lf - lr) |-> << fieldnames[lr + k], None >>]

\* the truth value of a cell value: a non-empty str or list
truthy(value) ==
    CASE value.kind = "str"  -> value.s # << >>
      [] value.kind = "list" -> value.l # << >>
      [] OTHER               -> FALSE

RECURSIVE list_items(_)
list_items(l) ==
    IF l = << >> THEN << >>
    ELSE <<"'">> \o l[1] \o <<"'">>
         \o (IF Len(l) > 1 THEN <<",", " ">> ELSE << >>) \o list_items(Tail(l))

\* str(value)
str(value) ==
    CASE value.kind = "str"  -> value.s
      [] value.kind = "list" -> <<"[">> \o list_items(value.l) \o <<"]">>
      [] OTHER               -> <<"N", "o", "n", "e">>

\* cleaned_row[key] = str(value).strip() if value else ''
cleaned_row(row) ==
    [k \in DOMAIN row |->
        << row[k][1], IF truthy(row[k][2]) THEN strip(str(row[k][2])) ELSE << >> >>]

\* CSVReader.read_recipients: the records returned, or the CSVError raised
read_recipients(file) ==
    IF ~file.exists
    THEN [ok |-> FALSE, error |-> "CSVError", recipients |-> << >>]
    ELSE LET fieldnames == IF file.lines = << >> THEN << >> ELSE file.lines[1] IN
         IF fieldnames = << >>
         THEN [ok |-> FALSE, error |-> "CSVError", recipients |-> << >>]
         ELSE LET parsed == SelectSeq(Tail(file.lines), LAMBDA r : r # << >>)
                  rows == [k \in DOMAIN parsed |-> DictRow(fieldnames, parsed[k])]
                  kept == SelectSeq(rows,
                              LAMBDA row : \E k \in DOMAIN row : truthy(row[k][2]))
                  recipients == [k \in DOMAIN kept |-> cleaned_row(kept[k])] IN
              IF recipients = << >>
              THEN [ok |-> FALSE, error |-> "CSVError", recipients |-> << >>]
              ELSE [ok |-> TRUE, error |-> "", recipients |-> recipients]

\* the cells, header rows and files read_recipients is called on
Cells == { << >>, <<" ">>, <<"\t", "a", " ">> }
Headers == { SubSeq(<<"email", "name", "city", "note">>, 1, n) : n \in 0..MaxCols }
CsvRows == SeqsUpTo(Cells, MaxCols)
CsvFiles ==
    { [exists |-> FALSE, lines |-> << >>], [exists |-> TRUE, lines |-> << >>] }
    \cup { [exists |-> TRUE, lines |-> << h >> \o rows] :
              h \in Headers, rows \in SeqsUpTo(CsvRows, MaxRows) }

\* ----------------------------- basic template rendering (both files)

\* "{{" + key + "}}"
placeholder(key) == <<"{", "{">> \o key \o <<"}", "}">>

\* str.replace(old, new): the occurrences of old, left to right, not overlapping
RECURSIVE replace(_, _, _)
replace(s, old, new) ==
    IF Len(s) < Len(old) THEN s
    ELSE IF SubSeq(s, 1, Len(old)) = old
         THEN new \o replace(SubSeq(s, Len(old) + 1, Len(s)), old, new)
         ELSE << Head(s) >> \o replace(Tail(s), old, new)

\* TemplateRenderer._basic_template_replace and EmailWorker.render_template:
\* one replace over the whole text per item of data, in the order of the dict
RECURSIVE basic_template_replace(_, _)
basic_template_replace(content, data) ==
    IF data = << >> THEN content
    ELSE basic_template_replace(
             replace(content, placeholder(data[1][1]), data[1][2]), Tail(data))

RECURSIVE Flatten(_)
Flatten(pieces) == IF pieces = << >> THEN << >> ELSE pieces[1] \o Flatten(Tail(pieces))

\* the templates (given by their pieces) and records rendering is called on
Columns == { <<"a">>, <<"b">> }
ColumnValues == { << >>, <<"x">>, placeholder(<<"b">>) }
TemplatePieces ==
    { <<"t">>, placeholder(<<"a">>), placeholder(<<"b">>),
      placeholder(<<"c">>), placeholder(<<"A">>) }
Records ==
    { d \in SeqsUpTo(Columns \X ColumnValues, Cardinality(Columns)) :
        \A j, k \in DOMAIN d : j # k => d[j][1] # d[k][1] }

\* --------------------------- EmailApplication.load_config (email_app.py)

\* the application section of a configuration file: max_file_size_mb given or not
ConfigFiles == UNION { [K -> {1, 2 * DefaultMaxSizeMb}] : K \in SUBSET {"max_file_size_mb"} }

\* ConfigurationManager._merge_config with DEFAULT_CONFIG, as far as the
\* application section goes
merge_config(user) ==
    [application |->
        [max_file_size_mb |-> config_get(user, "max_file_size_mb", DefaultMaxSizeMb),
         template_directory |-> "./templates"]]

\* dict.get(*args) of Python: a key and at most one default; more arguments
\* raise TypeError
dict_get(d, args) ==
    IF Len(args) > 2 THEN [raised |-> "TypeError"]
    ELSE IF args[1] \in DOMAIN d THEN [raised |-> "", value |-> d[args[1]]]
    ELSE [raised |-> "", value |-> IF Len(args) = 2 THEN args[2] ELSE None]

\* EmailApplication.load_config on a valid file: self.config is the merged
\* dict; the two self.config.get(...) calls are calls of dict.get. The
\* result is the exception that leaves load_config and max_size_bytes of the
\* attachment handler afterwards.
load_config(user) ==
    LET config == merge_config(user)
        template_dir == dict_get(config, <<"application", "template_directory">>)
        max_size == dict_get(config, <<"application", "max_file_size_mb", DefaultMaxSizeMb>>) IN
    IF template_dir.raised # ""
    THEN [raised |-> template_dir.raised, max_size_bytes |-> max_size_bytes]
    ELSE IF max_size.raised # ""
    THEN [raised |-> max_size.raised, max_size_bytes |-> max_size_bytes]
    ELSE [raised |-> "", max_size_bytes |-> max_size.value * BytesPerMb]

\* ---------------------------------------- single calls (email_app.py)
\* The functions of email_app.py called once on drawn arguments: call holds
\* the arguments, and after the call the value returned or the error raised.

callFrame == << mode, recipients_data, attachment_list, template_state, guiVars, cli,
               setup_config >>

\* the arguments send_email is called with
SendEmailCalls ==
    { [fn |-> "send_email", done |-> FALSE, cfg |-> c, recipient |-> r,
       attachments |-> a, fault |-> f] :
        c \in { with_credentials(k, p) : k \in SmtpConfigs, p \in Passwords },
        r \in { Str("r1@x.org"), Str(""), List(<< >>),
                List(<<"r1@x.org", "r2@x.org">>), None },
        a \in SeqsUpTo(AttachmentFiles, MaxAttachments),
        f \in SessionFaults }

\* the files read_recipients is called on
ReadRecipientsCalls ==
    { [fn |-> "read_recipients", done |-> FALSE, file |-> f] : f \in CsvFiles }

\* the templates and records _basic_template_replace is called on
RenderCalls ==
    { [fn |-> "basic_template_replace", done |-> FALSE, pieces |-> t, data |-> d] :
        t \in SeqsUpTo(TemplatePieces, MaxPieces), d \in Records }

\* the paths and limits create_attachment is called with
CreateAttachmentCalls ==
    { [fn |-> "create_attachment", done |-> FALSE, file |-> f, max |-> m] :
        f \in AttachmentPaths, m \in MaxSizes }

\* the configurations and recipients send_test_email is called with
SendTestEmailCalls ==
    { [fn |-> "send_test_email", done |-> FALSE, cfg |-> with_credentials(k, p),
       test_recipient |-> r, fault |-> f] :
        k \in SmtpConfigs, p \in Passwords, r \in { Str("test@x.org"), None },
        f \in SessionFaults }

\* the configuration files load_config is called on
LoadConfigCalls ==
    { [fn |-> "load_config", done |-> FALSE, user |-> u] : u \in ConfigFiles }

Calls == SendEmailCalls \cup ReadRecipientsCalls \cup RenderCalls
         \cup CreateAttachmentCalls \cup SendTestEmailCalls \cup LoadConfigCalls

InitCalls ==
    /\ mode = "call"
    /\ recipients_data = << >>
    /\ attachment_list = << >>
    /\ template_state = "ok"
    /\ email_app = FALSE
    /\ app_config = CampaignSmtp
    /\ setup_config = CampaignSmtp
    /\ worker = 0
    /\ workers = [w \in 1..MaxWorkers |-> NoWorker]
    /\ mainQueue = << >>
    /\ send_all_enabled = TRUE
    /\ stop_enabled = FALSE
    /\ test_loading = FALSE
    /\ cli = [pc |-> "none", total |-> 0, i |-> 0, sent |-> 0, failed |-> 0,
              errors |-> << >>, success |-> FALSE, attempted |-> << >>,
              items |-> << >>, smtpCalls |-> 0]
    /\ call \in Calls

\* EmailSender.send_email
CallSendEmail ==
    /\ call.fn = "send_email" /\ ~call.done
    /\ call' = [fn |-> "send_email", done |-> TRUE, cfg |-> call.cfg,
                recipient |-> call.recipient, attachments |-> call.attachments,
                fault |-> call.fault,
                ret |-> send_email(call.cfg, call.recipient, call.attachments,
                                   max_size_bytes, call.fault),
                log |-> send_email_log(call.cfg, call.recipient, call.attachments,
                                       max_size_bytes, call.fault)]
    /\ UNCHANGED callFrame

\* EmailApplication.send_test_email
CallSendTestEmail ==
    /\ call.fn = "send_test_email" /\ ~call.done
    /\ call' = [fn |-> "send_test_email", done |-> TRUE, cfg |-> call.cfg,
                test_recipient |-> call.test_recipient, fault |-> call.fault,
                ret |-> send_test_email(call.cfg, call.test_recipient, call.fault).ok,
                log |-> send_test_email(call.cfg, call.test_recipient, call.fault).log]
    /\ UNCHANGED callFrame

\* AttachmentHandler.create_attachment
CallCreateAttachment ==
    /\ call.fn = "create_attachment" /\ ~call.done
    /\ call' = [fn |-> "create_attachment", done |-> TRUE, file |-> call.file,
                max |-> call.max,
                ret |-> create_attachment(call.file, call.max),
                ops |-> create_attachment_ops(call.file, call.max)]
    /\ UNCHANGED callFrame

\* EmailApplication.load_config
CallLoadConfig ==
    /\ call.fn = "load_config" /\ ~call.done
    /\ call' = [fn |-> "load_config", done |-> TRUE, user |-> call.user,
                ret |-> load_config(call.user)]
    /\ UNCHANGED callFrame

\* CSVReader.read_recipients
CallReadRecipients ==
    /\ call.fn = "read_recipients" /\ ~call.done
    /\ call' = [fn |-> "read_recipients", done |-> TRUE, file |-> call.file,
                ret |-> read_recipients(call.file)]
    /\ UNCHANGED callFrame

\* faulty variant: rendering consumes the items of the record
CallBasicTemplateReplace_consuming ==
    /\ call.fn = "basic_template_replace" /\ ~call.done
    /\ call' = [fn |-> "basic_template_replace", done |-> TRUE,
                pieces |-> call.pieces, data |-> << >>,
                ret |-> basic_template_replace(Flatten(call.pieces), call.data)]
    /\ UNCHANGED callFrame

\* TemplateRenderer._basic_template_replace
CallBasicTemplateReplace ==
    /\ call.fn = "basic_template_replace" /\ ~call.done
    /\ call' = [fn |-> "basic_template_replace", done |-> TRUE,
                pieces |-> call.pieces, data |-> call.data,
                ret |-> basic_template_replace(Flatten(call.pieces), call.data)]
    /\ UNCHANGED callFrame

\* the same template rendered against the same record a second time: the
\* arguments are the objects the first call left behind
CallBasicTemplateReplaceAgain ==
    /\ call.fn = "basic_template_replace" /\ call.done
    /\ "again" \notin DOMAIN call
    /\ call' = [fn |-> "basic_template_replace", done |-> TRUE,
                pieces |-> call.pieces, data |-> call.data, ret |-> call.ret,
                again |-> basic_template_replace(Flatten(call.pieces), call.data)]
    /\ UNCHANGED callFrame

NextCalls ==
    \/ CallSendEmail
    \/ CallReadRecipients
    \/ CallBasicTemplateReplace
    \/ CallBasicTemplateReplaceAgain
    \/ CallCreateAttachment
    \/ CallSendTestEmail
    \/ CallLoadConfig

SpecCalls == InitCalls /\ [][NextCalls]_vars

\* ------------------------------------------------------------- properties

Bulk == { w \in 1..MaxWorkers : workers[w].op = "bulk" }
Upto(n) == [j \in 1..n |-> j]
NumFailed(items) == Cardinality({ j \in DOMAIN items : ~items[j].success })
InvalidAttachments(atts) == attach_all(atts, max_size_bytes) # "ok"

\* C1: in a campaign that is not cancelled every recipient of the list is
\* attempted exactly once, in list order; a failed recipient neither ends the
\* loop nor is attempted again.
C1_EveryRecipientOnce ==
    /\ \A w \in Bulk :
        LET wk == workers[w] IN
        /\ wk.attempted = Upto(Len(wk.attempted))
        /\ (wk.pc = "done" /\ (~wk.should_stop \/ wk.exit = "exhausted"))
              => wk.attempted = Upto(Len(wk.recipients))
    /\ cli.attempted = Upto(Len(cli.attempted))
    /\ cli.pc = "done" => cli.attempted = Upto(Len(recipients_data))

\* a finished campaign whose first recipient failed and whose second was sent
C1_Witness ==
    \E w \in Bulk :
        /\ workers[w].pc = "done" /\ workers[w].exit = "exhausted"
        /\ Len(workers[w].items) = 2
        /\ ~workers[w].items[1].success /\ workers[w].items[2].success
        /\ workers[w].attempted = << 1, 2 >>

\* C2: a campaign over N recipients that runs to completion ends with
\* total = N, failed = the number of failed attempts, sent = N - failed and
\* success = (no attempt failed).
C2_CompletedResult ==
    /\ \A w \in Bulk :
        LET wk == workers[w] IN
        (wk.pc = "done" /\ wk.exit = "exhausted") =>
            LET res == wk.terminal[1]
                n == Len(wk.recipients)
                f == NumFailed(wk.items) IN
            /\ Len(wk.items) = n
            /\ res.total = n /\ res.failed = f /\ res.sent = n - f
            /\ res.success = (f = 0)
    /\ cli.pc = "done" =>
            LET n == Len(recipients_data)
                f == NumFailed(cli.items) IN
            /\ Len(cli.items) = n
            /\ cli.total = n /\ cli.failed = f /\ cli.sent = n - f
            /\ cli.success = (f = 0)

\* a completed campaign of two recipients with one sent and one failed
C2_Witness ==
    \E w \in Bulk :
        /\ workers[w].pc = "done" /\ workers[w].exit = "exhausted"
        /\ workers[w].terminal[1].total = 2 /\ workers[w].terminal[1].sent = 1
        /\ workers[w].terminal[1].failed = 1 /\ ~workers[w].terminal[1].success

\* C3 (as claimed): once stop has been clicked while a campaign runs, that
\* campaign starts no new recipient.
C3_NoNewRecipientAfterStop ==
    [][ \A w \in 1..MaxWorkers :
          (workers[w].op = "bulk" /\ workers[w].stopAsked /\ workers[w].pc = "loop")
             => workers'[w].pc # "sending" ]_vars

\* C4 (as claimed): while a campaign is running, no other worker runs and
\* the window still refers to the campaign's worker.
C4_OneRunningOperation ==
    \A b \in 1..MaxWorkers :
        BulkRunning(b) =>
            /\ worker = b
            /\ \A w \in 1..MaxWorkers : w # b => ~Running(w)

\* C5: a campaign cancelled after k processed recipients ends with total = N
\* and sent + failed = k; outcomes, events and attempts exist for exactly the
\* first k recipients of the list.
C5_CancelledPrefix ==
    \A w \in Bulk :
        LET wk == workers[w] IN
        (wk.pc = "done" /\ wk.exit = "break") =>
            LET res == wk.terminal[1]
                k == wk.i IN
            /\ res.total = Len(wk.recipients)
            /\ res.sent + res.failed = k
            /\ Len(wk.items) = k
            /\ \A j \in 1..k : /\ wk.items[j].idx = j
                               /\ wk.items[j].recipient = wk.recipients[j]
            /\ wk.attempted = Upto(k)
            /\ \A j \in DOMAIN wk.progress : wk.progress[j][1] <= k

\* a campaign of two recipients cancelled after the first
C5_Witness ==
    \E w \in Bulk :
        /\ workers[w].pc = "done" /\ workers[w].exit = "break"
        /\ workers[w].i = 1 /\ workers[w].total = 2
        /\ workers[w].terminal[1].total = 2

\* C6: a stop that arrives while recipient s is in flight does not interrupt
\* the send: its outcome is counted and its event emitted, and the campaign
\* ends right after it.
C6_InFlightSendFinishes ==
    \A w \in Bulk :
        LET wk == workers[w] IN
        wk.stopAt > 0 =>
            IF wk.pc = "sending"
            THEN wk.i + 1 = wk.stopAt
            ELSE /\ Len(wk.items) = wk.stopAt
                 /\ wk.items[wk.stopAt].idx = wk.stopAt
                 /\ wk.sent + wk.failed = wk.stopAt
                 /\ wk.attempted = Upto(wk.stopAt)
                 /\ wk.pc = "done" =>
                       wk.terminal[1].sent + wk.terminal[1].failed = wk.stopAt

\* a campaign stopped during its first send, ended with that one outcome
C6_Witness ==
    \E w \in Bulk :
        /\ workers[w].stopAt = 1 /\ workers[w].pc = "done"
        /\ workers[w].total = 2
        /\ Len(workers[w].items) = 1
        /\ workers[w].sent + workers[w].failed = 1

C9_ProgressAfterProcessing ==
    \A w \in Bulk :
        \A j \in DOMAIN workers[w].progress :
            workers[w].progress[j][1] <= workers[w].sent + workers[w].failed

\* C10: one email_sent event per processed recipient, in list order, each
\* emitted after its send and before the next recipient starts; the result
\* event follows all of them.
C10_ItemEventsInOrder ==
    \A w \in Bulk :
        LET wk == workers[w] IN
        /\ Len(wk.items) = wk.i /\ wk.i = wk.sent + wk.failed
        /\ \A j \in DOMAIN wk.items : /\ wk.items[j].idx = j
                                      /\ wk.items[j].recipient = wk.recipients[j]
        /\ Len(wk.attempted) = IF wk.pc = "sending" THEN Len(wk.items) + 1
                                                    ELSE Len(wk.items)
        /\ wk.terminal # << >> =>
              /\ Len(wk.terminal) = 1 /\ wk.pc = "done"
              /\ wk.terminal[1].sent + wk.terminal[1].failed = Len(wk.items)

\* a finished campaign with the events of r1 (sent) and r2 (failed), in order
C10_Witness ==
    \E w \in Bulk :
        /\ workers[w].pc = "done" /\ Len(workers[w].terminal) = 1
        /\ Len(workers[w].items) = 2
        /\ workers[w].items[1].recipient = "r1@x.org" /\ workers[w].items[1].success
        /\ workers[w].items[2].recipient = "r2@x.org" /\ ~workers[w].items[2].success

\* an entry of errors that includes the address
NamedIn(errors, address) ==
    \E k \in DOMAIN errors : \E t \in DOMAIN errors[k] : errors[k][t] = address

\* C11 (as claimed): for every recipient whose delivery failed, errors has
\* an entry that includes the recipient's address.
C11_ErrorsNameFailedRecipient ==
    /\ \A w \in Bulk :
        \A j \in DOMAIN workers[w].items :
            ~workers[w].items[j].success =>
                NamedIn(workers[w].errors, workers[w].items[j].recipient)
    /\ \A j \in DOMAIN cli.items :
            ~cli.items[j].success => NamedIn(cli.errors, cli.items[j].recipient)

\* C12 (as claimed): when send_email has returned or raised, no connection
\* it opened is still open.
C12_ConnectionClosedOnEveryExit ==
    (call.fn = "send_email" /\ call.done) => ~call.ret.open

\* the place of event e in trace t, 0 when it is not there
Pos(t, e) == IF \E k \in DOMAIN t : t[k] = e
             THEN CHOOSE k \in DOMAIN t : t[k] = e /\ \A m \in 1..(k - 1) : t[m] # e
             ELSE 0

\* C13: with use_ssl the connection is TLS from the start and STARTTLS is
\* never issued; without it the connection starts in plaintext and, with
\* use_tls, STARTTLS precedes login; login precedes send_message; with
\* use_ssl or use_tls the credentials travel on an encrypted connection.
C13_ConnectionOrder ==
    (call.fn = "send_email" /\ call.done) =>
        LET t == call.ret.trace
            ssl == config_get(call.cfg, "use_ssl", FALSE)
            tls == config_get(call.cfg, "use_tls", TRUE) IN
        /\ t # << >> => t[1] = (IF ssl THEN "connect_ssl" ELSE "connect_plain")
        /\ ssl => Pos(t, "starttls") = 0
        /\ (~ssl /\ tls /\ Pos(t, "login") > 0) =>
              (0 < Pos(t, "starttls") /\ Pos(t, "starttls") < Pos(t, "login"))
        /\ Pos(t, "send_message") > 0 =>
              (0 < Pos(t, "login") /\ Pos(t, "login") < Pos(t, "send_message"))
        /\ ((ssl \/ tls) /\ Pos(t, "login") > 0) =>
              \/ Pos(t, "connect_ssl") = 1
              \/ (0 < Pos(t, "starttls") /\ Pos(t, "starttls") < Pos(t, "login"))
        /\ call.ret.ok => Pos(t, "send_message") > 0

\* a message sent over STARTTLS with both keys absent from the configuration
C13_Witness ==
    /\ call.fn = "send_email" /\ call.done /\ call.ret.ok
    /\ "use_ssl" \notin DOMAIN call.cfg /\ "use_tls" \notin DOMAIN call.cfg
    /\ call.ret.trace = <<"connect_plain", "starttls", "login", "send_message", "quit">>

\* what went wrong in the exchange, for the faults the claim sorts
FaultCategory(fault) ==
    CASE fault = "auth" -> "authentication"
      [] fault = "send" -> "protocol"
      [] fault \in {"connect", "connect_timeout", "send_timeout"} -> "connection"
      [] OTHER -> "other"

\* the category the text of the EmailSendError names
ReportedCategory(err) ==
    IF Len(err) >= 2 /\ err[1] = "SMTP error"
          /\ err[2] \in {"SMTP authentication failed", "Connection error", "SMTP error"}
    THEN err[2] ELSE "unnamed"

\* C14 (as claimed): the error of a failed send tells authentication,
\* protocol and connection failures apart: failures of one category are
\* reported alike, failures of different categories differently.
C14_ErrorCategoriesDistinct ==
    (/\ call.fn = "send_email" /\ call.done /\ call.ret.smtp = 1 /\ ~call.ret.ok
     /\ FaultCategory(call.fault) # "other") =>
        \A g \in SessionFaults :
            LET other == send_email(call.cfg, call.recipient, call.attachments,
                                    max_size_bytes, g) IN
            (FaultCategory(g) # "other" /\ ~other.ok) =>
                ((FaultCategory(g) = FaultCategory(call.fault))
                    <=> (ReportedCategory(other.err) = ReportedCategory(call.ret.err)))

WorkerStep(w) == BulkInit(w) \/ BulkNext(w) \/ BulkSend(w) \/ BulkFinish(w)

\* C15: a campaign emits its one terminal event exactly when it ends,
\* completed or cancelled, and can always go on until then; once that event
\* is handled the window is idle: Send All enabled, Stop disabled.
C15_OneTerminalEventThenIdle ==
    /\ \A w \in Bulk :
        /\ Len(workers[w].terminal) <= 1
        /\ (workers[w].pc = "done") <=> (Len(workers[w].terminal) = 1)
        /\ Cardinality({ k \in DOMAIN mainQueue : mainQueue[k].w = w }) <= 1
        /\ BulkRunning(w) => ENABLED WorkerStep(w)
    /\ mainQueue # << >> => ENABLED (BulkFinished \/ TestEmailFinished \/ TestFinished)
    /\ (mode = "gui"
        /\ \A w \in 1..MaxWorkers : ~BulkRunning(w)
        /\ \A k \in DOMAIN mainQueue : mainQueue[k].slot # "bulk_finished")
       => (send_all_enabled /\ ~stop_enabled)

\* a cancelled campaign whose result has been handled: the window is idle
C15_Witness ==
    \E w \in Bulk :
        /\ workers[w].pc = "done" /\ workers[w].exit = "break"
        /\ Len(workers[w].terminal) = 1
        /\ \A k \in DOMAIN mainQueue : mainQueue[k].w # w
        /\ send_all_enabled /\ ~stop_enabled

\* C16 (as claimed): for a record whose email is empty no SMTP connection
\* is opened and no message is handed to the transport.
C16_BlankEmailNotSent ==
    /\ \A w \in Bulk :
        \A j \in DOMAIN workers[w].items :
            workers[w].items[j].recipient = "" =>
                (workers[w].items[j].smtp = 0 /\ ~workers[w].items[j].success)
    /\ \A j \in DOMAIN cli.items :
            cli.items[j].recipient = "" =>
                (cli.items[j].smtp = 0 /\ ~cli.items[j].success)

\* a cell that is empty after trimming
IsBlank(cell) == \A k \in DOMAIN cell : cell[k] \in Whitespace

\* t is cell without its leading and trailing whitespace
IsTrimOf(t, cell) ==
    /\ t # << >> => (t[1] \notin Whitespace /\ t[Len(t)] \notin Whitespace)
    /\ \E a \in 0..Len(cell) :
          /\ a + Len(t) <= Len(cell)
          /\ SubSeq(cell, a + 1, a + Len(t)) = t
          /\ \A k \in (1..a) \cup ((a + Len(t) + 1)..Len(cell)) : cell[k] \in Whitespace

\* the file of the call has a header row
HasHeader(file) == file.exists /\ file.lines # << >> /\ file.lines[1] # << >>

\* the data rows of the file that have a cell that is non-empty after trimming
UsableRows(file) ==
    { k \in 2..Len(file.lines) :
        \E c \in DOMAIN file.lines[k] : ~IsBlank(file.lines[k][c]) }

\* C17: for a file with a header and N >= 1 data rows that each have a
\* non-empty cell, read_recipients returns N records in file order, each
\* with every header column in header order, a missing or empty cell as
\* the empty text, every value trimmed.
C17_ReadsEveryRow ==
    (/\ call.fn = "read_recipients" /\ call.done
     /\ HasHeader(call.file) /\ Len(call.file.lines) >= 2
     /\ \A k \in 2..Len(call.file.lines) :
            \E c \in DOMAIN call.file.lines[k] : call.file.lines[k][c] # << >>) =>
        LET header == call.file.lines[1]
            recs == call.ret.recipients IN
        /\ call.ret.ok
        /\ Len(recs) = Len(call.file.lines) - 1
        /\ \A j \in DOMAIN recs :
              LET row == call.file.lines[j + 1] IN
              /\ Len(recs[j]) >= Len(header)
              /\ \A k \in DOMAIN header :
                    /\ recs[j][k][1] = header[k]
                    /\ IsTrimOf(recs[j][k][2],
                                IF k <= Len(row) THEN row[k] ELSE << >>)

\* two rows read, the first short with a padded cell
C17_Witness ==
    /\ call.fn = "read_recipients" /\ call.done /\ call.ret.ok
    /\ call.file.lines = << <<"email", "name">>, << <<"\t", "a", " ">> >>,
                            << << >>, <<"\t", "a", " ">> >> >>
    /\ call.ret.recipients =
           << << <<"email", <<"a">> >>, <<"name", << >> >> >>,
              << <<"email", << >> >>, <<"name", <<"a">> >> >> >>

\* C18 (as claimed): the records returned are those of the data rows that
\* have a cell that is non-empty after trimming; rows whose cells are all
\* empty or whitespace are not counted.
C18_BlankRowsSkipped ==
    (call.fn = "read_recipients" /\ call.done /\ HasHeader(call.file)) =>
        Len(call.ret.recipients) = Cardinality(UsableRows(call.file))

\* C19 (as claimed): read_recipients raises CSVError and returns nothing
\* when the file is missing, has no header or has no usable data row, and
\* never returns an empty list.
C19_FailsWithoutRecipients ==
    (call.fn = "read_recipients" /\ call.done) =>
        /\ (~HasHeader(call.file) \/ UsableRows(call.file) = {}) =>
              (~call.ret.ok /\ call.ret.error = "CSVError"
               /\ call.ret.recipients = << >>)
        /\ call.ret.ok => call.ret.recipients # << >>

\* the text a piece of the template stands for under the record
PieceValue(piece, data) ==
    IF \E j \in DOMAIN data : placeholder(data[j][1]) = piece
    THEN data[CHOOSE j \in DOMAIN data : placeholder(data[j][1]) = piece][2]
    ELSE piece

\* C20 (as claimed): basic rendering replaces every {{column}} of the
\* template by the record's value of that column, and leaves every
\* placeholder whose column is not in the record as its literal text.
C20_BasicRenderSubstitutes ==
    (call.fn = "basic_template_replace" /\ call.done) =>
        call.ret = Flatten([k \in DOMAIN call.pieces |->
                               PieceValue(call.pieces[k], call.data)])

ValidationErrors ==
    {"Attachment file not found", "Attachment path is not a file", "File too large"}

\* C22: create_attachment fails with not-found for a missing path, else
\* with not-a-file for a path that is no regular file, else with too-large
\* exactly when the size is strictly greater than the maximum; when it fails
\* so the file has not been opened.
C22_AttachmentValidationOrder ==
    (call.fn = "create_attachment" /\ call.done) =>
        LET f == call.file IN
        /\ ~f.exists => call.ret = "Attachment file not found"
        /\ (f.exists /\ ~f.isfile) => call.ret = "Attachment path is not a file"
        /\ (f.exists /\ f.isfile) =>
              ((call.ret = "File too large") <=> (f.size > call.max))
        /\ (f.exists /\ f.isfile /\ f.size = call.max) =>
              call.ret \notin ValidationErrors
        /\ call.ret \in ValidationErrors =>
              \A k \in DOMAIN call.ops : call.ops[k] # "open"

\* a readable file of exactly the maximum size is attached
C22_Witness ==
    /\ call.fn = "create_attachment" /\ call.done
    /\ call.file.isfile /\ call.file.size = call.max
    /\ call.ret = "ok"

\* the texts of a list of log records or of an error
Tokens(entries) == UNION { { e[t] : t \in DOMAIN e } : e \in { entries[k] : k \in DOMAIN entries } }

\* the same call made with password q
WithPassword(cfg, q) == [cfg EXCEPT !["password"] = q]

\* C23: the password is in no log record and in no error text of a send or
\* a test email, whatever the outcome of the exchange, and the log records
\* and the result are those of the same call made with another password.
C23_PasswordNotLogged ==
    (call.fn \in {"send_email", "send_test_email"} /\ call.done) =>
        /\ call.cfg.password \notin Tokens(call.log)
        /\ call.fn = "send_email" => call.cfg.password \notin Tokens(<< call.ret.err >>)
        /\ \A q \in Passwords :
              IF call.fn = "send_email"
              THEN /\ call.log = send_email_log(WithPassword(call.cfg, q), call.recipient,
                                     call.attachments, max_size_bytes, call.fault)
                   /\ call.ret.err = send_email(WithPassword(call.cfg, q), call.recipient,
                                     call.attachments, max_size_bytes, call.fault).err
              ELSE /\ call.log = send_test_email(WithPassword(call.cfg, q),
                                     call.test_recipient, call.fault).log
                   /\ call.ret = send_test_email(WithPassword(call.cfg, q),
                                     call.test_recipient, call.fault).ok

\* a test email whose login was refused, logged with the text of the error
C23_Witness ==
    /\ call.fn = "send_test_email" /\ call.done /\ ~call.ret
    /\ call.fault = "auth"
    /\ \E k \in DOMAIN call.log : call.log[k][1] = "EMAIL FAILED"
    /\ \E k \in DOMAIN call.log : call.log[k][1] = "SMTP CONNECT"

\* C24: in the final result of a campaign, completed or cancelled, failed
\* counts the failed recipients and success = (failed = 0).
C24_SuccessIffNoFailure ==
    /\ \A w \in Bulk :
        \A k \in DOMAIN workers[w].terminal :
            LET res == workers[w].terminal[k] IN
            /\ res.failed = NumFailed(workers[w].items)
            /\ res.success <=> (res.failed = 0)
    /\ cli.pc = "done" =>
            /\ cli.failed = NumFailed(cli.items)
            /\ cli.success <=> (cli.failed = 0)

\* a campaign cancelled before its last recipient with nothing failed: success
C24_Witness ==
    \E w \in Bulk :
        /\ workers[w].pc = "done" /\ workers[w].exit = "break"
        /\ workers[w].terminal[1].sent < workers[w].terminal[1].total
        /\ workers[w].terminal[1].failed = 0
        /\ workers[w].terminal[1].success

\* the failed outcomes of a run, in recipient order
FailedItems(items) == SelectSeq(items, LAMBDA it : ~it.success)

\* text ends with the error text err
EndsWith(text, err) ==
    /\ Len(text) >= Len(err)
    /\ SubSeq(text, Len(text) - Len(err) + 1, Len(text)) = err

\* errors has one entry per failed recipient, in recipient order
OneErrorPerFailure(errors, failed, items) ==
    /\ Len(errors) = failed
    /\ Len(errors) = Len(FailedItems(items))
    /\ \A k \in DOMAIN errors : EndsWith(errors[k], FailedItems(items)[k].error)

\* C25: after each processed recipient and in the final result, errors has
\* exactly one entry per failed recipient: its length is failed, and its
\* k-th entry is the error of the k-th recipient that failed.
C25_OneErrorPerFailedRecipient ==
    /\ \A w \in Bulk :
        /\ OneErrorPerFailure(workers[w].errors, workers[w].failed, workers[w].items)
        /\ \A k \in DOMAIN workers[w].terminal :
              OneErrorPerFailure(workers[w].terminal[k].errors,
                                 workers[w].terminal[k].failed, workers[w].items)
    /\ OneErrorPerFailure(cli.errors, cli.failed, cli.items)

\* a finished campaign whose two recipients failed for different reasons
C25_Witness ==
    \E w \in Bulk :
        /\ workers[w].pc = "done"
        /\ Len(workers[w].terminal[1].errors) = 2
        /\ workers[w].terminal[1].errors[1] # workers[w].terminal[1].errors[2]

\* C27 (as claimed): load_config on a valid configuration file completes
\* without raising, and afterwards the attachment handler's maximum is the
\* configured max_file_size_mb * 1024 * 1024.
C27_ConfiguredSizeLimit ==
    (call.fn = "load_config" /\ call.done) =>
        /\ call.ret.raised = ""
        /\ call.ret.max_size_bytes =
              config_get(call.user, "max_file_size_mb", DefaultMaxSizeMb) * BytesPerMb

\* C26 (as claimed): what a running campaign uses is what was captured when
\* it was started: the SMTP configuration its sends use is the one installed
\* by the handler that started it, its total is the length of its own
\* recipient list, and every recipient it processed is the one at that
\* place of that list, whatever is edited, reloaded or installed meanwhile.
C26_CampaignInputsFixed ==
    \A w \in Bulk :
        LET wk == workers[w] IN
        /\ wk.pc # "created" =>
              /\ wk.smtp_config = wk.started_config
              /\ wk.total = Len(wk.recipients)
        /\ \A j \in DOMAIN wk.items : wk.items[j].recipient = wk.recipients[j]

\* the counters of one campaign worker agree with what it has emitted
CountersConsistent(wk) ==
    /\ wk.pc # "created" => wk.sent + wk.failed <= wk.total
    /\ wk.sent + wk.failed = Len(wk.items)
    /\ wk.sent = Cardinality({ j \in DOMAIN wk.items : wk.items[j].success })
    /\ wk.terminal # << >> =>
          /\ wk.progress # << >>
          /\ wk.terminal[1].sent + wk.terminal[1].failed
                = wk.progress[Len(wk.progress)][1]

\* C28: in every state of a campaign worker sent + failed <= total and
\* sent + failed is the number of email_sent events emitted; no step makes
\* sent or failed smaller; when the result is emitted sent + failed is the
\* count of the last progress event.
C28_CountersMonotone ==
    [][\A w \in 1..MaxWorkers :
          /\ workers'[w].op = "bulk" => CountersConsistent(workers'[w])
          /\ (workers[w].op = "bulk" /\ workers'[w].op = "bulk") =>
                /\ workers'[w].sent >= workers[w].sent
                /\ workers'[w].failed >= workers[w].failed]_vars

\* a campaign cancelled after its first recipient: one processed, progress (1, 2)
C28_Witness ==
    \E w \in Bulk :
        /\ workers[w].pc = "done" /\ workers[w].exit = "break"
        /\ workers[w].terminal[1].total = 2
        /\ workers[w].terminal[1].sent + workers[w].terminal[1].failed = 1
        /\ workers[w].progress[Len(workers[w].progress)] = << 1, 2 >>

\* the records with the items of data in any order
Orders(data) ==
    { d \in Records : Len(d) = Len(data)
                      /\ { d[k] : k \in DOMAIN d } = { data[k] : k \in DOMAIN data } }

\* C29 (as claimed): basic rendering gives the same output for every order
\* of the record's fields, and a value that holds the placeholder of
\* another column is inserted as it is.
C29_NoNestedExpansion ==
    (call.fn = "basic_template_replace" /\ call.done) =>
        /\ \A d \in Orders(call.data) :
              basic_template_replace(Flatten(call.pieces), d) = call.ret
        /\ \A k \in DOMAIN call.data :
              call.pieces = << placeholder(call.data[k][1]) >> =>
                  call.ret = call.data[k][2]

\* C30: a campaign's should_stop is unset until stop is clicked while that
\* campaign runs, also when an earlier campaign was stopped; a campaign
\* that got no stop request ends by exhaustion with every recipient
\* processed.
C30_FreshCancellationFlag ==
    \A w \in Bulk :
        LET wk == workers[w] IN
        ~wk.stopAsked =>
            /\ BulkRunning(w) => ~wk.should_stop
            /\ wk.pc = "done" =>
                  /\ wk.exit = "exhausted"
                  /\ Len(wk.items) = Len(wk.recipients)
                  /\ wk.attempted = Upto(Len(wk.recipients))

\* a campaign started after a stopped one, never stopped itself, that
\* processed both its recipients
C30_Witness ==
    \E w \in Bulk :
        /\ workers[w].afterStop /\ ~workers[w].stopAsked
        /\ workers[w].pc = "done" /\ workers[w].exit = "exhausted"
        /\ Len(workers[w].items) = 2

====
